---------------------------- MODULE Spec2Model ----------------------------
(***************************************************************************)
(* One call session of the media-stream bridge of src/app.py:              *)
(* handle_media_stream opens the AI connection, sends session.update and   *)
(* runs receive_from_twilio (telephony -> AI) and send_to_twilio           *)
(* (AI -> telephony, with the get_additional_context tool call) as two     *)
(* asyncio tasks on one event loop.                                        *)
(*                                                                         *)
(* Text is a sequence of one-character strings, bytes are 0..255.          *)
(* A step of a task runs from one suspension point (await) to the next:    *)
(* the code between two awaits is atomic, as on a single event loop.       *)
(* A send writes its message when it begins and completes in a later step. *)
(***************************************************************************)
EXTENDS Integers, Sequences, FiniteSets, TLC

VARIABLES
    hpc,         \* position of handle_media_stream
    stream_sid,  \* the nonlocal stream_sid (line 67)
    aiOpen,      \* the AI connection openai_ws is open
    twOpen,      \* the telephony connection websocket is open
    inPc,        \* position of the task receive_from_twilio
    outPc,       \* position of the task send_to_twilio
    pending,     \* messages send_function_output has still to send
    aiSent,      \* messages sent on the AI transport, in order
    twSent,      \* frames sent on the telephony transport, in order
    twRecvd,     \* telephony events consumed by receive_from_twilio
    aiRecvd,     \* AI messages consumed by send_to_twilio
    searches     \* the calls of azure_search_rag: query, backend outcome

vars == <<hpc, stream_sid, aiOpen, twOpen, inPc, outPc, pending,
          aiSent, twSent, twRecvd, aiRecvd, searches>>

---------------------------------------------------------------------------
(* Bound of the model: messages consumed by the two tasks together.        *)
MaxMsgs == 3

---------------------------------------------------------------------------
(* Text helpers                                                            *)

None == "None"
NL == "\n"
PAD == "="

NoContent == <<"N","o"," ","c","o","n","t","e","n","t"," ","a","v","a","i","l","a","b","l","e">>
NoResults == <<"N","o"," ","r","e","l","e","v","a","n","t"," ","i","n","f","o","r","m","a","t","i","o","n"," ","f","o","u","n","d"," ","i","n"," ","A","z","u","r","e"," ","S","e","a","r","c","h",".">>
SearchError == <<"E","r","r","o","r"," ","r","e","t","r","i","e","v","i","n","g"," ","d","a","t","a"," ","f","r","o","m"," ","A","z","u","r","e"," ","S","e","a","r","c","h",".">>

\* "\n".join(parts)
RECURSIVE JoinNL(_)
JoinNL(parts) ==
    IF Len(parts) = 0 THEN <<>>
    ELSE IF Len(parts) = 1 THEN parts[1]
    ELSE parts[1] \o <<NL>> \o JoinNL(Tail(parts))

---------------------------------------------------------------------------
(* base64.b64encode(base64.b64decode(delta)).decode("utf-8"), lines 103-105 *)

B64Chars == <<"A","B","C","D","E","F","G","H","I","J","K","L","M","N","O","P","Q","R","S","T","U","V","W","X","Y","Z","a","b","c","d","e","f","g","h","i","j","k","l","m","n","o","p","q","r","s","t","u","v","w","x","y","z","0","1","2","3","4","5","6","7","8","9","+","/">>

IsB64Char(c) == \E i \in 1..Len(B64Chars) : B64Chars[i] = c
B64Index(c) == (CHOOSE i \in 1..Len(B64Chars) : B64Chars[i] = c) - 1

\* b64decode with validate=False: characters outside the alphabet are
\* skipped, a complete pad sequence ends the input, an incomplete quad at
\* the end raises binascii.Error.
RECURSIVE a2b_base64(_, _, _, _, _, _)
a2b_base64(s, i, quad_pos, leftchar, pads, out) ==
    IF i > Len(s)
    THEN IF quad_pos # 0 THEN [ok |-> FALSE, data |-> <<>>]
                         ELSE [ok |-> TRUE, data |-> out]
    ELSE LET ch == s[i] IN
         IF ch = PAD
         THEN IF quad_pos >= 2 /\ quad_pos + pads + 1 >= 4
              THEN [ok |-> TRUE, data |-> out]
              ELSE a2b_base64(s, i + 1, quad_pos, leftchar,
                              IF quad_pos >= 2 THEN pads + 1 ELSE pads, out)
         ELSE IF ~IsB64Char(ch)
         THEN a2b_base64(s, i + 1, quad_pos, leftchar, pads, out)
         ELSE LET v == B64Index(ch) IN
              CASE quad_pos = 0 ->
                     a2b_base64(s, i + 1, 1, v, 0, out)
                [] quad_pos = 1 ->
                     a2b_base64(s, i + 1, 2, v % 16, 0,
                                Append(out, (leftchar * 4 + (v \div 16)) % 256))
                [] quad_pos = 2 ->
                     a2b_base64(s, i + 1, 3, v % 4, 0,
                                Append(out, (leftchar * 16 + (v \div 4)) % 256))
                [] OTHER ->
                     a2b_base64(s, i + 1, 0, 0, 0,
                                Append(out, (leftchar * 64 + v) % 256))

b64decode(s) == a2b_base64(s, 1, 0, 0, 0, <<>>)

RECURSIVE b64encode(_)
b64encode(data) ==
    IF Len(data) = 0 THEN <<>>
    ELSE IF Len(data) = 1 THEN
        << B64Chars[(data[1] \div 4) + 1],
           B64Chars[((data[1] % 4) * 16) + 1], PAD, PAD >>
    ELSE IF Len(data) = 2 THEN
        << B64Chars[(data[1] \div 4) + 1],
           B64Chars[((data[1] % 4) * 16 + (data[2] \div 16)) + 1],
           B64Chars[((data[2] % 16) * 4) + 1], PAD >>
    ELSE
        << B64Chars[(data[1] \div 4) + 1],
           B64Chars[((data[1] % 4) * 16 + (data[2] \div 16)) + 1],
           B64Chars[((data[2] % 16) * 4 + (data[3] \div 64)) + 1],
           B64Chars[(data[3] % 64) + 1] >>
        \o b64encode(SubSeq(data, 4, Len(data)))

\* Mutant of AudioPayload: the padding is stripped from the encoding.
AudioPayload_NoPadding(delta) ==
    LET d == b64decode(delta)
        IsNotPad(c) == c # PAD
    IN IF d.ok THEN [ok |-> TRUE, text |-> SelectSeq(b64encode(d.data), IsNotPad)]
               ELSE [ok |-> FALSE, text |-> <<>>]

\* audio_payload of lines 103-105; ok = FALSE when b64decode raises.
AudioPayload(delta) ==
    LET d == b64decode(delta) IN
    IF d.ok THEN [ok |-> TRUE, text |-> b64encode(d.data)]
            ELSE [ok |-> FALSE, text |-> <<>>]

---------------------------------------------------------------------------
(* azure_search_rag, lines 194-210.  outcome is what search_client.search  *)
(* does for this call: ok = FALSE when it raises, else the documents in    *)
(* backend order (top=2, line 200).                                        *)

DocChunk(doc) == IF "chunk" \in DOMAIN doc THEN doc.chunk ELSE NoContent

\* Mutant of azure_search_rag: no try/except, a failing search raises.
azure_search_rag_NoExcept(query, outcome) ==
    IF ~outcome.ok
    THEN [raised |-> TRUE, text |-> <<>>]
    ELSE LET summarized_results ==
                 [i \in 1..Len(outcome.docs) |-> DocChunk(outcome.docs[i])]
         IN IF Len(summarized_results) = 0
            THEN [raised |-> FALSE, text |-> NoResults]
            ELSE [raised |-> FALSE, text |-> JoinNL(summarized_results)]

\* Mutant of azure_search_rag: the emptiness test of line 205 is missing.
azure_search_rag_NoEmptyCheck(query, outcome) ==
    IF ~outcome.ok
    THEN [raised |-> FALSE, text |-> SearchError]
    ELSE [raised |-> FALSE,
          text |-> JoinNL([i \in 1..Len(outcome.docs) |-> DocChunk(outcome.docs[i])])]

\* The value returned; raised says an exception leaves the function, which
\* the try/except of lines 196-210 never lets happen.
azure_search_rag(query, outcome) ==
    IF ~outcome.ok
    THEN [raised |-> FALSE, text |-> SearchError]
    ELSE LET summarized_results ==
                 [i \in 1..Len(outcome.docs) |-> DocChunk(outcome.docs[i])]
         IN IF Len(summarized_results) = 0
            THEN [raised |-> FALSE, text |-> NoResults]
            ELSE [raised |-> FALSE, text |-> JoinNL(summarized_results)]

Top == 2
D1 == [id |-> "1", chunk |-> <<"a", "b">>]
D2 == [id |-> "2", chunk |-> <<"c">>]
D3 == [id |-> "3"]
SearchOutcomes ==
    { o \in { [ok |-> FALSE, docs |-> <<>>],
              [ok |-> TRUE,  docs |-> <<>>],
              [ok |-> TRUE,  docs |-> <<D3, D1>>],
              [ok |-> TRUE,  docs |-> <<D1, D2, D3>>] } : Len(o.docs) <= Top }

---------------------------------------------------------------------------
(* Messages of the two transports, as the parsed JSON objects.  A record   *)
(* with a raw field stands for text json.loads rejects.                    *)

Malformed == [raw |-> "{"]
JsonOk(m) == "raw" \notin DOMAIN m
\* dict.get(key) of a parsed object
Get(m, key, default) == IF key \in DOMAIN m THEN m[key] ELSE default

P1 == <<"Q", "U", "J", "D">>
P2 == <<"+", "/", "=">>
TwilioEvents ==
    { [event |-> "start", start |-> [streamSid |-> "CA1"]],
      [event |-> "start", start |-> [streamSid |-> "CA2"]],
      [event |-> "media", media |-> [payload |-> P1]],
      [event |-> "media", media |-> [payload |-> P2]],
      [event |-> "stop"],
      Malformed }

\* "QUI=" is canonical base64; "QR==" has non-zero unused bits; "QUI"
\* lacks its padding.
Deltas ==
    { <<"Q", "U", "I", "=">>,
      <<"Q", "R", "=", "=">>,
      <<"Q", "U", "I">> }

ToolName == "get_additional_context"
FnDone == "response.function_call_arguments.done"
ArgsQuery == "{\"query\": \"plan details\"}"
ArgsNoQuery == "{\"topic\": \"x\"}"
ArgsBad == "{\"query\""

\* json.loads(response["arguments"]), line 117
LoadArguments(a) ==
    CASE a = ArgsQuery   -> [ok |-> TRUE,  obj |-> [query |-> "plan details"]]
      [] a = ArgsNoQuery -> [ok |-> TRUE,  obj |-> [topic |-> "x"]]
      [] OTHER           -> [ok |-> FALSE, obj |-> [topic |-> "x"]]

ToolCalls ==
    { [type |-> FnDone, name |-> ToolName, arguments |-> ArgsQuery, call_id |-> "c1"],
      [type |-> FnDone, name |-> ToolName, arguments |-> ArgsNoQuery, call_id |-> "c2"],
      [type |-> FnDone, name |-> ToolName, arguments |-> ArgsBad, call_id |-> "c1"],
      [type |-> FnDone, name |-> "other_function", arguments |-> ArgsQuery, call_id |-> "c2"],
      [type |-> FnDone, name |-> ToolName, arguments |-> ArgsQuery] }

AIMessages ==
    { [type |-> "response.audio.delta", delta |-> d] : d \in Deltas }
    \cup { [type |-> "response.audio.delta"] }
    \cup ToolCalls
    \cup { [type |-> "input_audio_buffer.committed", text |-> " hi "],
           [type |-> "response.done"],
           Malformed }

\* initialize_session, lines 138-161: the session.update message
session_update ==
    [type |-> "session.update",
     session |-> [turn_detection |-> [type |-> "server_vad"],
                  input_audio_format |-> "g711_ulaw",
                  output_audio_format |-> "g711_ulaw",
                  voice |-> "alloy",
                  tools |-> <<[type |-> "function", name |-> ToolName]>>]]

\* Mutant of send_function_output: the response.create of line 191 is
\* missing.
send_function_output_NoResume(call_id, output) ==
    << [type |-> "conversation.item.create",
        item |-> [type |-> "function_call_output",
                  call_id |-> call_id, output |-> output]] >>

\* Mutant of send_function_output: response.create is sent twice.
send_function_output_ResumeTwice(call_id, output) ==
    << [type |-> "conversation.item.create",
        item |-> [type |-> "function_call_output",
                  call_id |-> call_id, output |-> output]],
       [type |-> "response.create"],
       [type |-> "response.create"] >>

\* send_function_output, lines 178-191: the messages it sends, in order
send_function_output(call_id, output) ==
    << [type |-> "conversation.item.create",
        item |-> [type |-> "function_call_output",
                  call_id |-> call_id, output |-> output]],
       [type |-> "response.create"] >>

\* Mutant of audio_append: the payload is decoded and encoded again.
audio_append_Reencoded(data) ==
    [type |-> "input_audio_buffer.append",
     audio |-> AudioPayload(data.media.payload).text]

\* lines 81-84
audio_append(data) ==
    [type |-> "input_audio_buffer.append", audio |-> data.media.payload]

\* Mutant of audio_delta: the frame carries the identifier the handler
\* started with (stream_sid read without the nonlocal binding).
audio_delta_InitialSid(sid, audio_payload) ==
    [event |-> "media", streamSid |-> None, media |-> [payload |-> audio_payload]]

\* lines 106-110
audio_delta(sid, audio_payload) ==
    [event |-> "media", streamSid |-> sid, media |-> [payload |-> audio_payload]]

---------------------------------------------------------------------------
Init ==
    /\ hpc = "init"
    /\ stream_sid = None
    /\ aiOpen = TRUE
    /\ twOpen = TRUE
    /\ inPc = "idle"
    /\ outPc = "idle"
    /\ pending = <<>>
    /\ aiSent = <<>>
    /\ twSent = <<>>
    /\ twRecvd = <<>>
    /\ aiRecvd = <<>>
    /\ searches = <<>>

Closed == hpc \in {"returned", "raised"}

Last(q) == q[Len(q)]

\* Mutant of EventLoopFree: the search is awaited (run in an executor), so
\* the event loop runs the other tasks during it.
EventLoopFree_AsyncSearch == TRUE

\* line 118: azure_search_rag is an ordinary function called without await,
\* so from the call to its return the thread of the event loop is inside
\* it and no coroutine of the process takes a step.
EventLoopFree == outPc # "searching"

---------------------------------------------------------------------------
(* handle_media_stream, lines 62-133                                       *)

\* line 73: await initialize_session(openai_ws); the send raises on a
\* closed connection and the exception leaves the handler.
InitializeSession ==
    /\ hpc = "init"
    /\ IF aiOpen
       THEN /\ aiSent' = Append(aiSent, session_update)
            /\ hpc' = "initSending"
            /\ UNCHANGED <<aiOpen, twOpen>>
       ELSE /\ hpc' = "raised"
            /\ twOpen' = FALSE
            /\ UNCHANGED <<aiSent, aiOpen>>
    /\ UNCHANGED <<stream_sid, inPc, outPc, pending, twSent, twRecvd,
                   aiRecvd, searches>>

\* Mutant of StartLoops: the tasks are started before initialize_session.
StartLoops_BeforeInit ==
    /\ hpc = "init"
    /\ hpc' = "gather"
    /\ inPc' = "recv"
    /\ outPc' = "recv"
    /\ UNCHANGED <<stream_sid, aiOpen, twOpen, pending, aiSent, twSent,
                   twRecvd, aiRecvd, searches>>

\* line 133: the send of line 162 has completed; gather starts both tasks.
StartLoops ==
    /\ hpc = "initSending"
    /\ hpc' = "gather"
    /\ inPc' = "recv"
    /\ outPc' = "recv"
    /\ UNCHANGED <<stream_sid, aiOpen, twOpen, pending, aiSent, twSent,
                   twRecvd, aiRecvd, searches>>

\* line 133 and the exit of the async with of line 69: both tasks have
\* finished, the AI connection is released and the endpoint returns.
GatherReturn ==
    /\ hpc = "gather"
    /\ inPc = "done"
    /\ outPc = "done"
    /\ hpc' = "returned"
    /\ aiOpen' = FALSE
    /\ twOpen' = FALSE
    /\ UNCHANGED <<stream_sid, inPc, outPc, pending, aiSent, twSent,
                   twRecvd, aiRecvd, searches>>

\* Mutant of GatherRaise: the AI connection is opened without the async
\* with, so an exception leaving the handler does not release it.
GatherRaise_NoRelease ==
    /\ hpc = "gather"
    /\ EventLoopFree
    /\ (inPc = "error" \/ outPc = "error")
    /\ hpc' = "raised"
    /\ twOpen' = FALSE
    /\ UNCHANGED <<stream_sid, aiOpen, inPc, outPc, pending, aiSent, twSent,
                   twRecvd, aiRecvd, searches>>

\* line 133: gather propagates the first exception of a task at once (only
\* receive_from_twilio lets one escape); the async with releases the AI
\* connection while send_to_twilio may still be running.
GatherRaise ==
    /\ hpc = "gather"
    /\ EventLoopFree
    /\ (inPc = "error" \/ outPc = "error")
    /\ hpc' = "raised"
    /\ aiOpen' = FALSE
    /\ twOpen' = FALSE
    /\ UNCHANGED <<stream_sid, inPc, outPc, pending, aiSent, twSent,
                   twRecvd, aiRecvd, searches>>

---------------------------------------------------------------------------
(* receive_from_twilio, lines 75-92                                        *)

\* Mutant of start_stream_sid: the identifier is kept once it is set.
start_stream_sid_KeepFirst(data) ==
    IF stream_sid = None THEN data.start.streamSid ELSE stream_sid

\* line 87: the value assigned to stream_sid on a start event
start_stream_sid(data) == data.start.streamSid

\* Mutant of OtherEvent: an event that is neither media nor start ends
\* the loop.
OtherEvent_EndsLoop ==
    /\ inPc' = "done"
    /\ UNCHANGED <<aiSent, stream_sid>>

\* lines 80-88: the if/elif has no else; any other event is skipped
OtherEvent == UNCHANGED <<aiSent, inPc, stream_sid>>

\* One iteration of the loop of line 78 on the event data, up to its first
\* await.  An event that does not parse or lacks a key raises (lines 79,
\* 80, 83, 87), and so does the send of line 85 on a closed AI connection:
\* only WebSocketDisconnect is caught, so the exception ends the task.
receive_from_twilio(data) ==
    /\ hpc = "gather"
    /\ EventLoopFree
    /\ inPc = "recv"
    /\ twOpen
    /\ Len(twRecvd) + Len(aiRecvd) < MaxMsgs
    /\ twRecvd' = Append(twRecvd, data)
    /\ IF ~JsonOk(data) \/ "event" \notin DOMAIN data
       THEN /\ inPc' = "error"
            /\ UNCHANGED <<aiSent, stream_sid>>
       ELSE IF data.event = "media"
       THEN IF aiOpen
            THEN /\ aiSent' = Append(aiSent, audio_append(data))
                 /\ inPc' = "sending"
                 /\ UNCHANGED stream_sid
            ELSE /\ inPc' = "error"
                 /\ UNCHANGED <<aiSent, stream_sid>>
       ELSE IF data.event = "start"
       THEN /\ stream_sid' = start_stream_sid(data)
            /\ UNCHANGED <<aiSent, inPc>>
       ELSE OtherEvent
    /\ UNCHANGED <<hpc, aiOpen, twOpen, outPc, pending, twSent, aiRecvd,
                   searches>>

\* line 85: the await of openai_ws.send returns
AppendSent ==
    /\ EventLoopFree
    /\ inPc = "sending"
    /\ inPc' = "recv"
    /\ UNCHANGED <<hpc, stream_sid, aiOpen, twOpen, outPc, pending, aiSent,
                   twSent, twRecvd, aiRecvd, searches>>

\* line 78: the telephony connection has closed and websocket.iter_text()
\* ends the iteration without raising (the framework's iter_text absorbs
\* WebSocketDisconnect), so the task returns and lines 89-92 do not run.
IterTextEnds ==
    /\ EventLoopFree
    /\ inPc = "recv"
    /\ ~twOpen
    /\ inPc' = "done"
    /\ UNCHANGED <<hpc, stream_sid, aiOpen, twOpen, outPc, pending, aiSent,
                   twSent, twRecvd, aiRecvd, searches>>

\* lines 89-92: WebSocketDisconnect reaches the except clause, which closes
\* the AI connection if it is open.
WebSocketDisconnected ==
    /\ EventLoopFree
    /\ inPc = "recv"
    /\ ~twOpen
    /\ hpc = "gather"
    /\ aiOpen' = FALSE
    /\ inPc' = "done"
    /\ UNCHANGED <<hpc, stream_sid, twOpen, outPc, pending, aiSent, twSent,
                   twRecvd, aiRecvd, searches>>

---------------------------------------------------------------------------
(* send_to_twilio, lines 94-131                                            *)

\* Mutant of CaughtException: the loop has no try/except and the exception
\* leaves the task.
CaughtException_Escapes == "error"

\* lines 95 and 130-131: the loop runs inside try/except Exception, so
\* an exception raised in it is logged and the task returns normally.
CaughtException == "done"

\* Mutant of AwaitOutput: send_function_output is started as a task of
\* its own and the loop goes back to its receive at once.
AwaitOutput_NotAwaited == "recv"

\* line 120: send_function_output is awaited, so the loop stays in this
\* iteration until both sends have completed.
AwaitOutput == "sendingOutput"

\* Mutant of OtherMessage: the commented-out call of trigger_rag_search of
\* lines 124-127 is active.
OtherMessage_TriggersSearch ==
    /\ aiSent' = Append(aiSent,
                        [type |-> "conversation.item.create",
                         item |-> [type |-> "function_call", name |-> ToolName]])
    /\ UNCHANGED <<twSent, pending, outPc>>

\* lines 122-129 and the end of the loop body: a message of any other type
\* matches none of the first two ifs; for input_audio_buffer.committed the
\* text is read and stripped and nothing is done with it.
OtherMessage == UNCHANGED <<aiSent, twSent, pending, outPc>>

\* One iteration of the loop of line 96 on the message openai_message, up
\* to its first await or to the call of azure_search_rag.
send_to_twilio(openai_message) ==
    /\ outPc = "recv"
    /\ aiOpen
    /\ Len(twRecvd) + Len(aiRecvd) < MaxMsgs
    /\ aiRecvd' = Append(aiRecvd, openai_message)
    /\ LET response == openai_message
           type == Get(response, "type", None)
       IN
       IF ~JsonOk(response)
       THEN /\ outPc' = CaughtException
            /\ UNCHANGED <<aiSent, twSent, pending>>
       ELSE IF type = "response.audio.delta" /\ "delta" \in DOMAIN response
       THEN LET audio_payload == AudioPayload(response.delta) IN
            IF audio_payload.ok /\ twOpen
            THEN /\ twSent' = Append(twSent,
                                     audio_delta(stream_sid, audio_payload.text))
                 /\ outPc' = "sendingMedia"
                 /\ UNCHANGED <<aiSent, pending>>
            ELSE /\ outPc' = CaughtException
                 /\ UNCHANGED <<aiSent, twSent, pending>>
       ELSE IF type = FnDone
       THEN IF "name" \notin DOMAIN response
            THEN /\ outPc' = CaughtException
                 /\ UNCHANGED <<aiSent, twSent, pending>>
            ELSE IF response.name = ToolName
            THEN IF ~LoadArguments(response.arguments).ok
                 THEN /\ outPc' = CaughtException
                      /\ UNCHANGED <<aiSent, twSent, pending>>
                 ELSE /\ outPc' = "searching"
                      /\ UNCHANGED <<aiSent, twSent, pending>>
            ELSE UNCHANGED <<aiSent, twSent, pending, outPc>>
       ELSE OtherMessage
    /\ UNCHANGED <<hpc, stream_sid, aiOpen, twOpen, inPc, twRecvd, searches>>

\* lines 117-120: azure_search_rag returns for the tool call consumed last,
\* outcome being what the search backend did, and send_function_output
\* begins its first send.  A missing call_id, or a send on a closed AI
\* connection, raises.
SearchReturns(outcome) ==
    /\ outPc = "searching"
    /\ LET response == Last(aiRecvd)
           query == Get(LoadArguments(response.arguments).obj, "query", "")
           search_results == azure_search_rag(query, outcome)
       IN
       /\ searches' = Append(searches, [query |-> query, outcome |-> outcome])
       /\ IF search_results.raised
             \/ "call_id" \notin DOMAIN response
             \/ ~aiOpen
          THEN /\ outPc' = CaughtException
               /\ UNCHANGED <<aiSent, pending>>
          ELSE LET msgs == send_function_output(response.call_id,
                                                search_results.text)
               IN /\ aiSent' = Append(aiSent, Head(msgs))
                  /\ pending' = Tail(msgs)
                  /\ outPc' = AwaitOutput
    /\ UNCHANGED <<hpc, stream_sid, aiOpen, twOpen, inPc, twSent, twRecvd,
                   aiRecvd>>

\* line 111: the await of websocket.send_json returns
MediaSent ==
    /\ outPc = "sendingMedia"
    /\ outPc' = "recv"
    /\ UNCHANGED <<hpc, stream_sid, aiOpen, twOpen, inPc, pending, aiSent,
                   twSent, twRecvd, aiRecvd, searches>>

\* lines 188-191: a send of send_function_output returns and the next one
\* begins; on a closed AI connection it raises, caught at line 130.
NextOutputSend ==
    /\ outPc = "sendingOutput"
    /\ pending # <<>>
    /\ IF aiOpen
       THEN /\ aiSent' = Append(aiSent, Head(pending))
            /\ pending' = Tail(pending)
            /\ UNCHANGED outPc
       ELSE /\ outPc' = CaughtException
            /\ pending' = <<>>
            /\ UNCHANGED aiSent
    /\ UNCHANGED <<hpc, stream_sid, aiOpen, twOpen, inPc, twSent, twRecvd,
                   aiRecvd, searches>>

\* line 120: the await of send_function_output returns
OutputSent ==
    /\ outPc = "sendingOutput"
    /\ pending = <<>>
    /\ outPc' = "recv"
    /\ UNCHANGED <<hpc, stream_sid, aiOpen, twOpen, inPc, pending, aiSent,
                   twSent, twRecvd, aiRecvd, searches>>

\* line 96: the AI connection has closed; the iteration ends, or raises
\* ConnectionClosedError, caught at line 130.
AIStreamEnds ==
    /\ outPc = "recv"
    /\ ~aiOpen
    /\ outPc' = "done"
    /\ UNCHANGED <<hpc, stream_sid, aiOpen, twOpen, inPc, pending, aiSent,
                   twSent, twRecvd, aiRecvd, searches>>

---------------------------------------------------------------------------
(* The peers                                                               *)

\* The AI service closes its connection.
AIRemoteClose ==
    /\ ~Closed
    /\ aiOpen
    /\ aiOpen' = FALSE
    /\ UNCHANGED <<hpc, stream_sid, twOpen, inPc, outPc, pending, aiSent,
                   twSent, twRecvd, aiRecvd, searches>>

\* The telephony side closes its connection.
TwilioDisconnect ==
    /\ ~Closed
    /\ twOpen
    /\ twOpen' = FALSE
    /\ UNCHANGED <<hpc, stream_sid, aiOpen, inPc, outPc, pending, aiSent,
                   twSent, twRecvd, aiRecvd, searches>>

---------------------------------------------------------------------------
Inbound ==
    \/ \E data \in TwilioEvents : receive_from_twilio(data)
    \/ AppendSent
    \/ IterTextEnds
    \/ WebSocketDisconnected

Outbound ==
    \/ \E m \in AIMessages : send_to_twilio(m)
    \/ \E outcome \in SearchOutcomes : SearchReturns(outcome)
    \/ MediaSent
    \/ NextOutputSend
    \/ OutputSent
    \/ AIStreamEnds

Handler ==
    \/ InitializeSession
    \/ StartLoops
    \/ GatherReturn
    \/ GatherRaise

Next ==
    \/ Handler
    \/ Inbound
    \/ Outbound
    \/ AIRemoteClose
    \/ TwilioDisconnect

Spec == Init /\ [][Next]_vars

\* The steps a task takes by itself once the event loop runs it: they wait
\* for no message of a peer.
HandlerProgress == Handler
InboundProgress == AppendSent \/ IterTextEnds \/ WebSocketDisconnected
OutboundProgress ==
    \/ \E outcome \in SearchOutcomes : SearchReturns(outcome)
    \/ MediaSent
    \/ NextOutputSend
    \/ OutputSent
    \/ AIStreamEnds

\* The event loop runs every task that is ready; the peers are under no
\* obligation to send or to close.
FairSpec ==
    /\ Spec
    /\ WF_vars(HandlerProgress)
    /\ WF_vars(InboundProgress)
    /\ WF_vars(OutboundProgress)

---------------------------------------------------------------------------
(* Vocabulary of the properties                                            *)

IsPrefix(a, b) == Len(a) <= Len(b) /\ SubSeq(b, 1, Len(a)) = a

IsAppend(m) == m.type = "input_audio_buffer.append"
IsResult(m) == m.type = "conversation.item.create"
IsResume(m) == m.type = "response.create"
IsSessionUpdate(m) == m.type = "session.update"
IsToolTraffic(m) == IsResult(m) \/ IsResume(m)

HasEvent(e) == JsonOk(e) /\ "event" \in DOMAIN e
IsMediaEvent(e) == HasEvent(e) /\ e.event = "media"
IsStartEvent(e) == HasEvent(e) /\ e.event = "start"
IsOtherEvent(e) == HasEvent(e) /\ e.event \notin {"media", "start"}

IsDeltaMsg(m) ==
    Get(m, "type", None) = "response.audio.delta" /\ "delta" \in DOMAIN m
IsToolCall(m) == Get(m, "type", None) = FnDone
\* a tool call the bridge can answer: the declared tool, arguments that
\* parse, a call_id
IsValidToolCall(m) ==
    /\ IsToolCall(m)
    /\ "name" \in DOMAIN m
    /\ m.name = ToolName
    /\ LoadArguments(m.arguments).ok
    /\ "call_id" \in DOMAIN m

Appends == SelectSeq(aiSent, IsAppend)
Results == SelectSeq(aiSent, IsResult)
ToolTraffic == SelectSeq(aiSent, IsToolTraffic)
MediaEvents == SelectSeq(twRecvd, IsMediaEvent)
StartEvents == SelectSeq(twRecvd, IsStartEvent)
DeltaMsgs == SelectSeq(aiRecvd, IsDeltaMsg)
ToolCallMsgs == SelectSeq(aiRecvd, IsToolCall)
ValidToolCalls == SelectSeq(aiRecvd, IsValidToolCall)

\* the step consumes a telephony event / an AI message
InboundConsumes == twRecvd' # twRecvd
OutboundConsumes == aiRecvd' # aiRecvd

---------------------------------------------------------------------------
\* C1 (as stated): whenever the outbound loop is back at its receive, every
\* tool-call-arguments-complete message it has consumed has been answered
\* on the AI transport by one tool result carrying its call_id followed by
\* one response.create.
C1_EveryToolCallAnswered ==
    outPc = "recv" =>
        /\ Len(ToolTraffic) = 2 * Len(ToolCallMsgs)
        /\ \A i \in 1..Len(ToolCallMsgs) :
              /\ IsResult(ToolTraffic[2 * i - 1])
              /\ ToolTraffic[2 * i - 1].item.call_id
                    = Get(ToolCallMsgs[i], "call_id", None)
              /\ IsResume(ToolTraffic[2 * i])

\* C1 (amended): while the AI connection has stayed open, the tool results
\* and resume signals sent on the AI transport are exactly one result
\* carrying the call_id, then one response.create, for each consumed tool
\* call that names get_additional_context with arguments that parse and a
\* call_id, in the order consumed, whatever the retrieval did; only the
\* call in progress may still be without its result (its retrieval has not
\* returned) or without its resume, and other tool calls add no message.
C1_ValidToolCallAnswered ==
    aiOpen =>
        LET answered ==
                IF outPc = "searching" /\ IsValidToolCall(Last(aiRecvd))
                THEN Len(ValidToolCalls) - 1 ELSE Len(ValidToolCalls)
        IN
        /\ Len(ToolTraffic) = 2 * answered - Len(pending)
        /\ Len(pending) <= 1
        /\ (outPc # "sendingOutput" => pending = <<>>)
        /\ \A i \in 1..answered :
              /\ IsResult(ToolTraffic[2 * i - 1])
              /\ ToolTraffic[2 * i - 1].item.call_id = ValidToolCalls[i].call_id
              /\ (2 * i <= Len(ToolTraffic) => IsResume(ToolTraffic[2 * i]))

\* Two tool calls answered, one after a failed search and one after an
\* empty one.
C1_Witness ==
    /\ aiOpen
    /\ outPc = "recv"
    /\ Len(ValidToolCalls) = 2
    /\ Len(ToolTraffic) = 4
    /\ ~searches[1].outcome.ok
    /\ searches[2].outcome.ok
    /\ ValidToolCalls[1].call_id # ValidToolCalls[2].call_id

---------------------------------------------------------------------------
\* the chunk texts of a non-empty result list, by position
ChunkTexts(docs) ==
    [i \in 1..Len(docs) |->
        IF "chunk" \in DOMAIN docs[i] THEN docs[i].chunk ELSE NoContent]

RECURSIVE Offset(_, _)
\* the number of characters before part i of a newline-separated block
Offset(parts, i) ==
    IF i = 1 THEN 0 ELSE Offset(parts, i - 1) + Len(parts[i - 1]) + 1

\* text is parts[1], newline, parts[2], newline, ..., parts[n]
IsNewlineJoin(text, parts) ==
    LET n == Len(parts) IN
    /\ Len(text) = Offset(parts, n) + Len(parts[n])
    /\ \A i \in 1..n :
          /\ SubSeq(text, Offset(parts, i) + 1,
                    Offset(parts, i) + Len(parts[i])) = parts[i]
          /\ (i < n => text[Offset(parts, i) + Len(parts[i]) + 1] = NL)

PayloadMatches(output, outcome) ==
    IF ~outcome.ok THEN output = SearchError
    ELSE IF outcome.docs = <<>> THEN output = NoResults
    ELSE IsNewlineJoin(output, ChunkTexts(outcome.docs))

\* C2: the output of every tool result sent is determined by the outcome
\* of its retrieval: the chunks joined by newlines in backend order, with
\* "No content available" for a document without chunk; "No relevant
\* information found in Azure Search." for an empty list; "Error retrieving
\* data from Azure Search." for a failed retrieval.
C2_PayloadFromOutcome ==
    /\ Len(Results) <= Len(searches)
    /\ Len(searches) <= Len(Results) + 1
    /\ \A i \in 1..Len(Results) :
          PayloadMatches(Results[i].item.output, searches[i].outcome)

\* Results sent for a failed, an empty and a non-empty retrieval.
C2_Witness ==
    /\ Len(Results) = 3
    /\ \E i, j, k \in 1..3 :
          /\ ~searches[i].outcome.ok
          /\ searches[j].outcome.ok /\ searches[j].outcome.docs = <<>>
          /\ searches[k].outcome.ok /\ Len(searches[k].outcome.docs) = 2

---------------------------------------------------------------------------
\* a step of the handling of a tool call whose search failed: the return
\* of the search, or a later send
FailedSearchStep ==
    \/ /\ outPc = "searching"
       /\ searches' # searches
       /\ IsValidToolCall(Last(aiRecvd))
       /\ ~Last(searches').outcome.ok
    \/ /\ outPc = "sendingOutput"
       /\ ~Last(searches).outcome.ok
       /\ (pending' # pending \/ outPc' # outPc)

\* C3: no step of the handling of a failed search closes a transport,
\* stops the inbound loop or ends the handler, and while the AI connection
\* is open the outbound loop goes through its two sends back to its
\* receive.
C3_FailedSearchKeepsSession ==
    [][ FailedSearchStep =>
          /\ aiOpen' = aiOpen
          /\ twOpen' = twOpen
          /\ inPc' = inPc
          /\ hpc' = hpc
          /\ (aiOpen => outPc' \in {"sendingOutput", "recv"})
          /\ (aiOpen /\ outPc = "sendingOutput" /\ pending = <<>>
                => outPc' = "recv") ]_vars

\* After a failed search was answered the outbound loop has consumed the
\* next AI message and both loops and transports are still up.
C3_Witness ==
    /\ Len(aiRecvd) = 2
    /\ IsValidToolCall(aiRecvd[1])
    /\ ~searches[1].outcome.ok
    /\ Len(ToolTraffic) = 2
    /\ IsDeltaMsg(aiRecvd[2])
    /\ Len(twSent) = 1
    /\ aiOpen /\ twOpen
    /\ inPc = "recv" /\ outPc = "recv" /\ hpc = "gather"

---------------------------------------------------------------------------
AppendAudio == [i \in 1..Len(Appends) |-> Appends[i].audio]
MediaPayloads == [i \in 1..Len(MediaEvents) |-> MediaEvents[i].media.payload]

\* C4 (as stated): the payloads of the media events received, in order,
\* are the audio of the input_audio_buffer.append messages sent.
C4_EveryPayloadForwarded == AppendAudio = MediaPayloads

\* C4 (amended): every media payload received while the AI connection is
\* open is sent unchanged as an input_audio_buffer.append, before or after
\* a start event; only a media event received after the AI connection has
\* closed is not forwarded, and it ends the inbound loop with an error.
C4_PayloadForwardedWhileOpen ==
    /\ IsPrefix(AppendAudio, MediaPayloads)
    /\ Len(MediaPayloads) <= Len(AppendAudio) + 1
    /\ Len(AppendAudio) < Len(MediaPayloads) =>
          /\ ~aiOpen
          /\ inPc = "error"
          /\ IsMediaEvent(Last(twRecvd))

\* A media event before the start event and one after it, both forwarded.
C4_Witness ==
    /\ Len(twRecvd) = 3
    /\ IsMediaEvent(twRecvd[1])
    /\ IsStartEvent(twRecvd[2])
    /\ IsMediaEvent(twRecvd[3])
    /\ twRecvd[1].media.payload # twRecvd[3].media.payload
    /\ AppendAudio = <<twRecvd[1].media.payload, twRecvd[3].media.payload>>

---------------------------------------------------------------------------
\* the number of "=" at the end of text, at most 2
TrailingPads(text) ==
    IF Len(text) >= 2 /\ text[Len(text)] = PAD /\ text[Len(text) - 1] = PAD THEN 2
    ELSE IF Len(text) >= 1 /\ text[Len(text)] = PAD THEN 1
    ELSE 0

\* text is the base64 encoding of some byte string: whole quads of
\* alphabet characters, at most two pads at the end, unused bits zero
IsCanonicalB64(text) ==
    LET n == Len(text)
        k == TrailingPads(text)
    IN /\ n % 4 = 0
       /\ \A i \in 1..(n - k) : IsB64Char(text[i])
       /\ (k = 1 => B64Index(text[n - 1]) % 4 = 0)
       /\ (k = 2 => B64Index(text[n - 2]) % 16 = 0)

\* C5 (as stated): the payload of every media frame sent equals the delta
\* of the response.audio.delta message it was made from.
C5_PayloadEqualsDelta ==
    \A i \in 1..Len(twSent) : twSent[i].media.payload = DeltaMsgs[i].delta

\* C5 (amended): the payload equals the delta unchanged whenever the delta
\* is canonical base64; any other decodable delta is sent as canonical
\* base64, and only the last delta consumed can be without a frame (it did
\* not decode, or the telephony connection was closed), which ends the
\* outbound loop.
C5_CanonicalDeltaUnchanged ==
    /\ Len(twSent) <= Len(DeltaMsgs)
    /\ Len(DeltaMsgs) <= Len(twSent) + 1
    /\ (Len(twSent) < Len(DeltaMsgs) =>
          /\ outPc = "done"
          /\ (~IsCanonicalB64(Last(DeltaMsgs).delta) \/ ~twOpen))
    /\ \A i \in 1..Len(twSent) :
          /\ IsCanonicalB64(twSent[i].media.payload)
          /\ (IsCanonicalB64(DeltaMsgs[i].delta)
                => twSent[i].media.payload = DeltaMsgs[i].delta)

\* A canonical delta sent unchanged and a non-canonical one sent changed.
C5_Witness ==
    /\ Len(twSent) = 2
    /\ IsCanonicalB64(DeltaMsgs[1].delta)
    /\ twSent[1].media.payload = DeltaMsgs[1].delta
    /\ ~IsCanonicalB64(DeltaMsgs[2].delta)
    /\ twSent[2].media.payload # DeltaMsgs[2].delta

---------------------------------------------------------------------------
\* the identifier of the session after the start events received so far
CapturedSid ==
    IF StartEvents = <<>> THEN None ELSE Last(StartEvents).start.streamSid

\* C6: a media frame is sent in the step that consumes its delta, and it
\* carries the stream identifier of that moment: the streamSid of the
\* start event processed, null if none has been processed; a decodable
\* delta consumed while the telephony connection is open is sent at once
\* also when the identifier is null.
C6_FrameCarriesCurrentSid ==
    [][ /\ (twSent' # twSent =>
              /\ OutboundConsumes
              /\ twSent' = Append(twSent, Last(twSent'))
              /\ Last(twSent').streamSid = CapturedSid
              /\ Last(twSent').streamSid = stream_sid)
        /\ (OutboundConsumes /\ IsDeltaMsg(Last(aiRecvd')) /\ twOpen
              /\ b64decode(Last(aiRecvd').delta).ok
              => Len(twSent') = Len(twSent) + 1) ]_vars

\* A frame sent with a null identifier before the start event and a frame
\* with the captured identifier after it.
C6_Witness ==
    /\ Len(twSent) = 2
    /\ twSent[1].streamSid = None
    /\ twSent[2].streamSid = "CA1"
    /\ StartEvents = <<[event |-> "start", start |-> [streamSid |-> "CA1"]]>>

---------------------------------------------------------------------------
\* C7 (as stated): once the stream identifier is set it never changes.
C7_SidNeverChanges ==
    [][ stream_sid # None => stream_sid' = stream_sid ]_vars

\* C7 (amended): the stream identifier changes only in the step in which
\* the inbound loop processes a start event, and every start event sets it
\* to its own streamSid, replacing an identifier set before.
C7_SidSetByStartOnly ==
    [][ /\ (stream_sid' # stream_sid =>
              InboundConsumes /\ IsStartEvent(Last(twRecvd')))
        /\ (InboundConsumes /\ IsStartEvent(Last(twRecvd')) =>
              stream_sid' = Last(twRecvd').start.streamSid) ]_vars

\* A second start event has replaced the identifier of the first.
C7_Witness ==
    /\ Len(StartEvents) = 2
    /\ StartEvents[1].start.streamSid = "CA1"
    /\ StartEvents[2].start.streamSid = "CA2"
    /\ stream_sid = "CA2"

---------------------------------------------------------------------------
\* C8: when the inbound loop has ended on the close of the telephony
\* connection, the AI connection has been closed with it, and no frame is
\* sent to the telephony transport once it has closed.
C8_TelephonyCloseClosesAI ==
    (hpc = "gather" /\ inPc = "done") => ~aiOpen

\* C8, second part: no frame is sent on a closed telephony connection.
C8_NoFrameAfterClose ==
    [][ ~twOpen => twSent' = twSent ]_vars

---------------------------------------------------------------------------
\* C9: session.update is sent at most once and nothing is sent on the AI
\* transport before it; no task has started and no message has been
\* consumed before its send has completed, and from then on it has been
\* sent exactly once.
C9_SessionUpdateFirstAndOnce ==
    /\ Len(SelectSeq(aiSent, IsSessionUpdate)) <= 1
    /\ (aiSent # <<>> => aiSent[1] = session_update)
    /\ (hpc = "init" => aiSent = <<>>)
    /\ (inPc # "idle" \/ outPc # "idle" \/ twRecvd # <<>> \/ aiRecvd # <<>>
          => /\ hpc \notin {"init", "initSending"}
             /\ Len(SelectSeq(aiSent, IsSessionUpdate)) = 1)

\* The session is running and session.update is followed by an append and
\* a tool result.
C9_Witness ==
    /\ hpc = "gather"
    /\ Len(aiSent) >= 3
    /\ IsSessionUpdate(aiSent[1])
    /\ Len(Appends) >= 1
    /\ Len(Results) >= 1

---------------------------------------------------------------------------
\* C10 (as stated): an event that is neither start nor media is the last
\* one the inbound loop consumes: the loop has ended and the AI connection
\* is closed.
C10_OtherEventEndsLoop ==
    \A i \in 1..Len(twRecvd) :
        IsOtherEvent(twRecvd[i]) =>
            /\ i = Len(twRecvd)
            /\ inPc = "done"
            /\ ~aiOpen

\* C10 (amended): an event that is neither start nor media is skipped: the
\* step sends nothing, leaves the stream identifier and both connections
\* as they are and the loop goes on to the next event; a media event
\* received later is forwarded while the AI connection is open.
C10_OtherEventSkipped ==
    [][ /\ (InboundConsumes /\ IsOtherEvent(Last(twRecvd')) =>
              /\ aiSent' = aiSent
              /\ twSent' = twSent
              /\ stream_sid' = stream_sid
              /\ aiOpen' = aiOpen
              /\ twOpen' = twOpen
              /\ inPc' = "recv")
        /\ (InboundConsumes /\ IsMediaEvent(Last(twRecvd')) /\ aiOpen =>
              aiSent' = Append(aiSent,
                               [type |-> "input_audio_buffer.append",
                                audio |-> Last(twRecvd').media.payload])) ]_vars

\* A media event received after a stop event has been forwarded.
C10_Witness ==
    /\ Len(twRecvd) = 2
    /\ twRecvd[1] = [event |-> "stop"]
    /\ IsMediaEvent(twRecvd[2])
    /\ Len(Appends) = 1
    /\ Last(aiSent).audio = twRecvd[2].media.payload
    /\ aiOpen

---------------------------------------------------------------------------
\* C11: the handler exits, releasing the AI connection, only after both
\* loops have ended: in every state in which the handler has returned or
\* raised, neither loop is still running.
C11_ReleasedAfterBothLoops ==
    Closed =>
        /\ inPc \in {"idle", "done", "error"}
        /\ outPc \in {"idle", "done"}

---------------------------------------------------------------------------
---------------------------------------------------------------------------
\* an AI message whose handling raises before any await: it does not
\* parse, its delta does not decode, or it is a tool call without name or
\* with arguments that do not parse
RaisingMessage(m) ==
    \/ ~JsonOk(m)
    \/ IsDeltaMsg(m) /\ ~b64decode(m.delta).ok
    \/ IsToolCall(m) /\ "name" \notin DOMAIN m
    \/ IsToolCall(m) /\ "name" \in DOMAIN m /\ m.name = ToolName
          /\ ~LoadArguments(m.arguments).ok

\* C13: a message that raises, and a send that fails on a closed
\* connection, end the outbound loop; the step that ends it leaves the
\* inbound loop, the handler and both connections as they are; the ended
\* loop consumes no further AI message and sends no frame; and a media
\* event the inbound loop consumes afterwards while the AI connection is
\* open is forwarded.
C13_OutboundErrorSparesInbound ==
    [][ /\ (OutboundConsumes /\ RaisingMessage(Last(aiRecvd'))
              => outPc' = "done")
        /\ (outPc = "sendingOutput" /\ pending # <<>> /\ ~aiOpen
              /\ outPc' # outPc => outPc' = "done")
        /\ (outPc # "done" /\ outPc' # outPc /\ outPc' \notin
              {"recv", "searching", "sendingMedia", "sendingOutput"}
              => /\ outPc' = "done"
                 /\ inPc' = inPc
                 /\ hpc' = hpc
                 /\ aiOpen' = aiOpen
                 /\ twOpen' = twOpen)
        /\ (outPc = "done"
              => outPc' = "done" /\ aiRecvd' = aiRecvd /\ twSent' = twSent)
        /\ (outPc = "done" /\ aiOpen /\ InboundConsumes
              /\ IsMediaEvent(Last(twRecvd'))
              => aiSent' = Append(aiSent,
                                  [type |-> "input_audio_buffer.append",
                                   audio |-> Last(twRecvd').media.payload])) ]_vars

\* The outbound loop has ended on a message that does not parse, and the
\* inbound loop, still running on open connections, has forwarded media.
C13_Witness ==
    /\ outPc = "done"
    /\ aiRecvd # <<>>
    /\ Last(aiRecvd) = Malformed
    /\ hpc = "gather"
    /\ inPc = "sending"
    /\ aiOpen /\ twOpen
    /\ Len(Appends) = 2

---------------------------------------------------------------------------
\* the outbound loop has ended because the AI connection closed or because
\* a message or a delta did not decode
OutboundEndedOnCloseOrDecode ==
    /\ outPc = "done"
    /\ \/ ~aiOpen
       \/ /\ aiRecvd # <<>>
          /\ \/ ~JsonOk(Last(aiRecvd))
             \/ IsDeltaMsg(Last(aiRecvd)) /\ ~b64decode(Last(aiRecvd).delta).ok

\* C14: once the outbound loop has ended because the AI connection closed
\* or a decode error was raised, the handler eventually returns or raises.
C14_OutboundEndLeadsToClosed ==
    OutboundEndedOnCloseOrDecode ~> Closed

---------------------------------------------------------------------------
Resumes == SelectSeq(aiSent, IsResume)

\* C15: the outbound loop consumes an AI message only at its receive, with
\* no send of a tool call outstanding and every result sent so far followed
\* by its resume; at most one answerable tool call is without its resume;
\* and the results carry the call_ids of the answerable tool calls in the
\* order in which these were consumed.
C15_OneToolCallAtATime ==
    [][ /\ (OutboundConsumes =>
              /\ outPc = "recv"
              /\ pending = <<>>
              /\ Len(Resumes) = Len(Results))
        /\ Len(ValidToolCalls') <= Len(Resumes') + 1
        /\ Len(Results') <= Len(ValidToolCalls')
        /\ \A i \in 1..Len(Results') :
              Results'[i].item.call_id = ValidToolCalls'[i].call_id ]_vars

\* The first tool call has been answered and resumed, and the result of
\* the second, with another call_id, has been sent and awaits its resume.
C15_Witness ==
    /\ outPc = "sendingOutput"
    /\ pending # <<>>
    /\ Len(ValidToolCalls) = 2
    /\ Len(Results) = 2
    /\ Len(Resumes) = 1
    /\ Results[1].item.call_id = "c1"
    /\ Results[2].item.call_id = "c2"

---------------------------------------------------------------------------
\* C16 (as stated): no send on the AI transport by one loop begins while a
\* send by the other loop has begun and not yet completed.
C16_NoConcurrentSends ==
    [][ aiSent' # aiSent =>
          /\ (IsAppend(Last(aiSent')) => outPc # "sendingOutput")
          /\ (IsToolTraffic(Last(aiSent')) => inPc # "sending") ]_vars

\* C16 (amended): every send on the AI transport adds one message: the
\* session.update of the handler; an append begun by the inbound loop at
\* its receive, its previous send completed; the result of the tool call
\* the outbound loop is handling, begun when its search returns; or the
\* resume of that call, begun when the send of the result has completed.
\* Each loop has one send in progress at most, and the outbound loop sends
\* nothing else; the sends of the two loops are not ordered against each
\* other.
C16_SendsSerializedPerLoop ==
    [][ aiSent' # aiSent =>
          LET m == Last(aiSent') IN
          /\ aiSent' = Append(aiSent, m)
          /\ \/ IsSessionUpdate(m) /\ hpc = "init"
             \/ /\ IsAppend(m)
                /\ InboundConsumes
                /\ inPc = "recv"
                /\ inPc' = "sending"
                /\ outPc' = outPc
             \/ /\ IsResult(m)
                /\ outPc = "searching"
                /\ IsValidToolCall(Last(aiRecvd))
                /\ m.item.call_id = Last(aiRecvd).call_id
                /\ pending' = <<[type |-> "response.create"]>>
                /\ inPc' = inPc
             \/ /\ IsResume(m)
                /\ outPc = "sendingOutput"
                /\ pending = <<m>>
                /\ pending' = <<>>
                /\ inPc' = inPc ]_vars

\* The resume of a tool call has been sent while the send of an append by
\* the inbound loop was in progress.
C16_Witness ==
    /\ inPc = "sending"
    /\ outPc = "sendingOutput"
    /\ Len(ToolTraffic) = 2
    /\ IsAppend(aiSent[Len(aiSent) - 1])
    /\ IsResume(Last(aiSent))

---------------------------------------------------------------------------
\* C17: while the retrieval is in progress the inbound loop can take a
\* step: if it is at its receive on open connections, a telephony event
\* that arrives can be consumed before the retrieval returns.
C17_InboundRunsDuringRetrieval ==
    ( /\ outPc = "searching"
      /\ hpc = "gather"
      /\ inPc = "recv"
      /\ twOpen
      /\ aiOpen
      /\ Len(twRecvd) + Len(aiRecvd) < MaxMsgs )
    => ENABLED (\E data \in TwilioEvents : receive_from_twilio(data))

---------------------------------------------------------------------------
\* an AI message that parses and whose type is neither
\* response.audio.delta nor response.function_call_arguments.done
IsOtherMessage(m) ==
    JsonOk(m) /\ Get(m, "type", None) \notin {"response.audio.delta", FnDone}

---------------------------------------------------------------------------
FramePayloads == [i \in 1..Len(twSent) |-> twSent[i].media.payload]
DeltaValues == [i \in 1..Len(DeltaMsgs) |-> DeltaMsgs[i].delta]

\* C19 (as stated): while both connections are open, the audio of the
\* appends sent is the sequence of the media payloads received and the
\* payloads of the frames sent are the sequence of the deltas received.
C19_RelayEqualsReceived ==
    (aiOpen /\ twOpen) =>
        /\ AppendAudio = MediaPayloads
        /\ FramePayloads = DeltaValues

\* C19 (amended): while both connections are open, the audio of the
\* appends sent is the sequence of the media payloads received, and the
\* frames sent correspond one to one and in order to the deltas received:
\* the i-th payload is canonical base64 of the bytes of the i-th delta,
\* equal to the delta when the delta is canonical; only a last delta that
\* does not decode, and has ended the outbound loop, has no frame.
C19_RelayInOrder ==
    (aiOpen /\ twOpen) =>
        /\ AppendAudio = MediaPayloads
        /\ Len(twSent) <= Len(DeltaMsgs)
        /\ Len(DeltaMsgs) <= Len(twSent) + 1
        /\ (Len(twSent) < Len(DeltaMsgs) =>
              /\ ~b64decode(Last(DeltaMsgs).delta).ok
              /\ outPc = "done")
        /\ \A i \in 1..Len(twSent) :
              /\ IsCanonicalB64(FramePayloads[i])
              /\ b64decode(FramePayloads[i]).data = b64decode(DeltaValues[i]).data
              /\ (IsCanonicalB64(DeltaValues[i])
                    => FramePayloads[i] = DeltaValues[i])

\* On open connections two different media payloads have been forwarded in
\* the order received, and a delta that is not canonical has been relayed
\* as a frame with another payload.
C19_Witness ==
    /\ aiOpen /\ twOpen
    /\ MediaPayloads = <<P2, P1>>
    /\ AppendAudio = <<P2, P1>>
    /\ Len(DeltaMsgs) = 1
    /\ Len(twSent) = 1
    /\ FramePayloads # DeltaValues

---------------------------------------------------------------------------
\* C20 (as stated): from the consumption of a tool call to the send of its
\* resume, no input_audio_buffer.append is sent on the AI transport:
\* neither before the result nor between the result and the resume.
C20_NoAppendInsideToolCall ==
    [][ /\ (outPc = "searching" \/ (outPc = "sendingOutput" /\ pending # <<>>))
        /\ aiSent' # aiSent
        => ~IsAppend(Last(aiSent')) ]_vars

\* C20 (amended): the step that consumes an answerable tool call sends
\* nothing and enters the search; the next message sent on the AI
\* transport is the result carrying its call_id, no append coming in
\* between; from the result to the resume the only messages sent are
\* appends of the inbound loop, and then the resume.
C20_ResultNextThenResume ==
    [][ /\ (OutboundConsumes /\ IsValidToolCall(Last(aiRecvd')) =>
              aiSent' = aiSent /\ outPc' = "searching")
        /\ (outPc = "searching" /\ aiSent' # aiSent =>
              /\ aiSent' = Append(aiSent, Last(aiSent'))
              /\ IsResult(Last(aiSent'))
              /\ Last(aiSent').item.call_id = Last(aiRecvd).call_id)
        /\ (outPc = "sendingOutput" /\ pending # <<>> /\ aiSent' # aiSent =>
              /\ aiSent' = Append(aiSent, Last(aiSent'))
              /\ \/ IsAppend(Last(aiSent')) /\ pending' = pending
                 \/ IsResume(Last(aiSent')) /\ pending' = <<>>) ]_vars

\* A result, an append of the inbound loop and the resume have been sent
\* one after the other.
C20_Witness ==
    \E i \in 1..Len(aiSent) :
        /\ i + 2 <= Len(aiSent)
        /\ IsResult(aiSent[i])
        /\ IsAppend(aiSent[i + 1])
        /\ IsResume(aiSent[i + 2])

==========================================================================
